---------------------------- MODULE Spec2Model ----------------------------
(***************************************************************************)
(* Model of the SSD1306 OLED driver of src/oled96.c: the I2C handle, the   *)
(* local copy of the display memory, the write offset, the font table and  *)
(* the public operations oledInit, oledShutdown, oledSetContrast,          *)
(* oledSetPixel, oledWriteString and oledFill.                             *)
(*                                                                         *)
(* Every public operation is one action.  The bursts handed to write() by  *)
(* the last call are recorded in tx, its return value in ret and its       *)
(* arguments in call, so that properties of a call are properties of the   *)
(* state it leaves.                                                        *)
(***************************************************************************)
EXTENDS Integers, Sequences, FiniteSets

VARIABLES
    file_i2c,       \* static int file_i2c: 0 means "not initialized"
    iScreenOffset,  \* static int iScreenOffset
    ucScreen,       \* static unsigned char ucScreen[1024]
    ucFont,         \* extern unsigned char ucFont[] (the modelled glyphs)
    openFds,        \* descriptors open()ed by the driver and not yet close()d
    nRotate,        \* how many times RotateFont90 has run
    crashed,        \* the process was killed by a write outside ucScreen
    nText,          \* how many oledWriteString calls have been made
    call,           \* the last public call and its arguments
    ret,            \* its return value (0 for the void oledShutdown)
    tx              \* the bursts it handed to write(), in order

vars == <<file_i2c, iScreenOffset, ucScreen, ucFont, openFds, nRotate,
          crashed, nText, call, ret, tx>>

---------------------------------------------------------------------------
\* Bounds of the model.

\* Descriptors the operating system may return from open(): 0..MaxFd.
MaxFd == 2
\* oledInit is explored until the font has been rotated MaxRotate times.
MaxRotate == 2
\* Character codes 1..MaxChar appear in the messages (0 ends a C string).
MaxChar == 2
\* Longest message passed to oledWriteString.
MaxLen == 3
\* oledWriteString is explored until it has been called MaxText times.
MaxText == 1
\* The font rotation is explored on the glyph patterns 0..MaxPattern.
MaxPattern == 69

---------------------------------------------------------------------------
\* Program constants.

ScreenSize == 1024
PageWidth == 128
LargeFontBase == 9728
SmallCells == 16
LargeCells == 8

---------------------------------------------------------------------------
\* C integer arithmetic on the values the driver uses.

\* The value an int expression takes when converted to unsigned char.
U8(v) == v % 256

\* a & b and a | b for non-negative operands, bit by bit.
RECURSIVE BitAndR(_, _)
BitAndR(a, b) ==
    IF a = 0 \/ b = 0 THEN 0
    ELSE (a % 2) * (b % 2) + 2 * BitAndR(a \div 2, b \div 2)

RECURSIVE BitOrR(_, _)
BitOrR(a, b) ==
    IF a = 0 THEN b
    ELSE IF b = 0 THEN a
    ELSE (IF a % 2 = 1 \/ b % 2 = 1 THEN 1 ELSE 0) + 2 * BitOrR(a \div 2, b \div 2)

\* The same, with the common case of a one-bit b (a mask 1 << k) computed
\* directly.
SingleBit(b) == b \in {1, 2, 4, 8, 16, 32, 64, 128}

BitAnd(a, b) ==
    IF SingleBit(b) THEN ((a \div b) % 2) * b ELSE BitAndR(a, b)

BitOr(a, b) ==
    IF SingleBit(b) THEN (IF (a \div b) % 2 = 1 THEN a ELSE a + b) ELSE BitOrR(a, b)

\* v >> n on a two's complement int (arithmetic shift).
Shr(v, n) == v \div (2 ^ n)

\* Bit k of the byte v.
Bit(v, k) == (v \div (2 ^ k)) % 2

---------------------------------------------------------------------------
\* The bus and the screen copy while one call runs: off is iScreenOffset,
\* scr is ucScreen, tx the bursts written so far, oob whether a memcpy went
\* outside ucScreen, dead whether that write killed the process.

Machine(off, scr) ==
    [off |-> off, scr |-> scr, tx |-> <<>>, oob |-> FALSE, dead |-> FALSE]

\* write(file_i2c, buf, n): the burst goes out; the result is not looked at.
BusWrite(m, buf) == [m EXCEPT !.tx = Append(@, buf)]

oledWriteCommand(m, c) ==
    IF m.dead THEN m ELSE BusWrite(m, <<0, U8(c)>>)

oledWriteCommand2(m, c, d) ==
    IF m.dead THEN m ELSE BusWrite(m, <<0, U8(c), U8(d)>>)

\* A variant that sends the column nibbles before the page.
oledSetPositionColumnFirst(m, x, y) ==
    IF m.dead THEN m
    ELSE LET m1 == oledWriteCommand(m, U8(x) % 16)
             m2 == oledWriteCommand(m1, BitOr(16, Shr(x, 4) % 16))
             m3 == oledWriteCommand(m2, BitOr(176, U8(y)))
         IN  [m3 EXCEPT !.off = (y * PageWidth) + x]

\* A variant that leaves out the high nibble of the column.
oledSetPositionNoHighNibble(m, x, y) ==
    IF m.dead THEN m
    ELSE LET m1 == oledWriteCommand(m, BitOr(176, U8(y)))
             m2 == oledWriteCommand(m1, U8(x) % 16)
         IN  [m2 EXCEPT !.off = (y * PageWidth) + x]

oledSetPosition(m, x, y) ==
    IF m.dead THEN m
    ELSE LET m1 == oledWriteCommand(m, BitOr(176, U8(y)))
             m2 == oledWriteCommand(m1, U8(x) % 16)
             m3 == oledWriteCommand(m2, BitOr(16, Shr(x, 4) % 16))
         IN  [m3 EXCEPT !.off = (y * PageWidth) + x]

\* ucScreen is held as the sequence of its 1024 bytes: ucScreen[i] of the
\* code is element i + 1.
ScreenByte(scr, i) == scr[i + 1]

Min(a, b) == IF a < b THEN a ELSE b
Max(a, b) == IF a > b THEN a ELSE b

\* memcpy(&ucScreen[off], ucBuf, iLen).  Bytes that fall inside the array are
\* stored.  A byte outside it is undefined behaviour: with segv the process
\* is killed at the copy, otherwise the byte lands in memory the driver does
\* not use and the call goes on.
ScreenCopy(scr, off, ucBuf) ==
    LET lo == Max(off, 0)
        hi == Min(off + Len(ucBuf), ScreenSize)
    IN  IF hi <= lo THEN scr
        ELSE SubSeq(scr, 1, lo) \o SubSeq(ucBuf, lo - off + 1, hi - off)
                \o SubSeq(scr, hi + 1, ScreenSize)

oledWriteDataBlock(m, ucBuf, segv) ==
    IF m.dead THEN m
    ELSE LET sent == BusWrite(m, <<64>> \o ucBuf)
             out  == m.off < 0 \/ m.off + Len(ucBuf) > ScreenSize
         IN  IF out /\ segv
             THEN [sent EXCEPT !.oob = TRUE, !.dead = TRUE]
             ELSE [sent EXCEPT !.scr = ScreenCopy(m.scr, m.off, ucBuf),
                               !.off = m.off + Len(ucBuf),
                               !.oob = m.oob \/ out]

---------------------------------------------------------------------------
\* oledSetPixel(x, y, ucColor): the result of the call on a machine.

PixelIndex(x, y) == (Shr(y, 3) * PageWidth) + x

\* A variant that sets the bit for a non-zero colour and never clears it.
PixelByteNoClear(ucOld, y, ucColor) ==
    IF ucColor # 0 THEN BitOr(ucOld, 2 ^ (y % 8)) ELSE ucOld

PixelByte(ucOld, y, ucColor) ==
    LET cleared == BitAnd(ucOld, 255 - 2 ^ (y % 8))
    IN  IF ucColor # 0 THEN BitOr(cleared, 2 ^ (y % 8)) ELSE cleared

\* A variant that writes the byte whether or not it changed.
PixelChangedAlways(uc, ucOld) == TRUE

PixelChanged(uc, ucOld) == uc # ucOld

SetPixelCode(m, fd, x, y, ucColor) ==
    IF fd = 0 THEN [ret |-> -1, m |-> m]
    ELSE LET i == PixelIndex(x, y)
         IN  IF i < 0 \/ i > 1023 THEN [ret |-> -1, m |-> m]
             ELSE LET ucOld == ScreenByte(m.scr, i)
                      uc    == PixelByte(ucOld, y, ucColor)
                  IN  IF PixelChanged(uc, ucOld)
                      THEN [ret |-> 0,
                            m   |-> oledWriteDataBlock(
                                        oledSetPosition(m, x, Shr(y, 3)),
                                        <<uc>>, FALSE)]
                      ELSE [ret |-> 0, m |-> m]

---------------------------------------------------------------------------
\* oledFill(ucData)

\* A variant that fills one byte short of the page.
FillBlockShort(ucData) == [k \in 1 .. 127 |-> ucData]

FillBlock(ucData) == [k \in 1 .. 128 |-> ucData]

RECURSIVE FillLoop(_, _, _)
FillLoop(m, y, temp) ==
    IF y < 8
    THEN FillLoop(oledWriteDataBlock(oledSetPosition(m, 0, y), temp, FALSE),
                  y + 1, temp)
    ELSE m

\* A variant without the test of file_i2c.
FillCodeUnguarded(m, fd, ucData) ==
    [ret |-> 0, m |-> FillLoop(m, 0, FillBlock(ucData))]

FillCode(m, fd, ucData) ==
    IF fd = 0 THEN [ret |-> -1, m |-> m]
    ELSE [ret |-> 0, m |-> FillLoop(m, 0, FillBlock(ucData))]

---------------------------------------------------------------------------
\* oledSetContrast(ucContrast)

SetContrastCode(m, fd, ucContrast) ==
    IF fd = 0 THEN [ret |-> -1, m |-> m]
    ELSE [ret |-> 0, m |-> oledWriteCommand2(m, 129, ucContrast)]

---------------------------------------------------------------------------
\* The font table.  ucFont is an external asset: 256 glyphs of 8 bytes from
\* offset 0 and 128 glyphs of 64 bytes from offset 9728.  The model carries
\* the bytes of the glyphs of the character codes 1..MaxChar, and the 12
\* bytes after the last large glyph, which its rotation reads.

GlyphCodes == 1 .. MaxChar

FontIndices ==
    (8 .. (8 * MaxChar + 7))
    \cup ((LargeFontBase + 64) .. (LargeFontBase + 64 * (MaxChar + 1) + 11))

\* The asset as linked: the 8x8 glyph of code 2 is blank, the others are not.
FontData == [k \in FontIndices |->
                IF k \in 16 .. 23 THEN 0
                ELSE (k * 37 + (k \div 8) * 11 + 5) % 256]

\* memcpy(&f[base], ucTemp, n)
FontCopy(f, base, ucTemp, n) ==
    [k \in DOMAIN f |->
        IF k >= base /\ k < base + n THEN ucTemp[k - base] ELSE f[k]]

---------------------------------------------------------------------------
\* RotateFont90()

\* A variant that shifts the samples in from the low end (c <<= 1; c |= 1).
RECURSIVE SmallColumnShiftLeft(_, _, _, _, _)
SmallColumnShiftLeft(f, s, ucMask, x, c) ==
    IF x < 8
    THEN LET c1 == (c * 2) % 256
             c2 == IF BitAnd(f[s + x], ucMask) # 0 THEN BitOr(c1, 1) ELSE c1
         IN  SmallColumnShiftLeft(f, s, ucMask, x + 1, c2)
    ELSE c

\* The 8x8 font: the loop over x, which builds one output byte c.
RECURSIVE SmallColumn(_, _, _, _, _)
SmallColumn(f, s, ucMask, x, c) ==
    IF x < 8
    THEN LET c1 == c \div 2
             c2 == IF BitAnd(f[s + x], ucMask) # 0 THEN BitOr(c1, 128) ELSE c1
         IN  SmallColumn(f, s, ucMask, x + 1, c2)
    ELSE c

\* The loop over y, which fills ucTemp[7-y].
RECURSIVE SmallRows(_, _, _, _, _)
SmallRows(f, s, ucMask, y, ucTemp) ==
    IF y < 8
    THEN SmallRows(f, s, U8(ucMask * 2), y + 1,
                   [ucTemp EXCEPT ![7 - y] = SmallColumn(f, s, ucMask, 0, 0)])
    ELSE ucTemp

\* The font table f carries the glyph of size bytes at base.
Carried(f, base, size) == base \in DOMAIN f /\ (base + size - 1) \in DOMAIN f

\* The next value of the loop counter after i (below n) whose glyph the
\* table carries, or n: the glyphs in between are not modelled and the loop
\* passes over them.
NextGlyph(f, i, base, size, n) ==
    LET c == {j \in (i + 1) .. (n - 1) : Carried(f, base + j * size, size)}
    IN  IF c = {} THEN n ELSE CHOOSE j \in c : \A k \in c : j <= k

\* The loop over the 256 glyphs, of which the glyphs the model carries are
\* rotated (each 8x8 glyph is rotated from its own 8 bytes alone).
RECURSIVE RotateSmall(_, _, _)
RotateSmall(f, i, ucTemp) ==
    IF i < 256
    THEN IF Carried(f, i * 8, 8)
         THEN LET t == SmallRows(f, i * 8, 1, 0, ucTemp)
              IN  RotateSmall(FontCopy(f, i * 8, t, 8), i + 1, t)
         ELSE RotateSmall(f, NextGlyph(f, i, 0, 8, 256), ucTemp)
    ELSE [f |-> f, ucTemp |-> ucTemp]

\* The 16x32 font: the loop over x builds the two output bytes c and c2.
RECURSIVE LargeColumn(_, _, _, _, _)
LargeColumn(f, s, ucMask, x, cc) ==
    IF x < 8
    THEN LET a  == cc[1] \div 2
             b  == cc[2] \div 2
             a1 == IF BitAnd(f[s + (x * 2)], ucMask) # 0 THEN BitOr(a, 128) ELSE a
             b1 == IF BitAnd(f[s + (x * 2) + 1], ucMask) # 0 THEN BitOr(b, 128) ELSE b
         IN  LargeColumn(f, s, ucMask, x + 1, <<a1, b1>>)
    ELSE cc

\* The loop over y: d[7-y] = c and d[15-y] = c2, with d = &ucTemp[j*16].
RECURSIVE LargeRows(_, _, _, _, _, _)
LargeRows(f, s, d, ucMask, y, ucTemp) ==
    IF y < 8
    THEN LET cc == LargeColumn(f, s, ucMask, 0, <<0, 0>>)
         IN  LargeRows(f, s, d, U8(ucMask * 2), y + 1,
                       [ucTemp EXCEPT ![d + 7 - y] = cc[1], ![d + 15 - y] = cc[2]])
    ELSE ucTemp

\* The loop over the 4 bands j of glyph i.
RECURSIVE LargeBands(_, _, _, _)
LargeBands(f, i, j, ucTemp) ==
    IF j < 4
    THEN LargeBands(f, i, j + 1,
                    LargeRows(f, LargeFontBase + 12 + (i * 64) + (j * 16),
                              j * 16, 1, 0, ucTemp))
    ELSE ucTemp

\* The loop over the 128 glyphs, of which the glyphs the model carries are
\* rotated: glyph i from the 64 bytes that start 12 bytes after its base
\* (for the last glyph a table carries, the 12 bytes that follow it).
RECURSIVE RotateLarge(_, _, _)
RotateLarge(f, i, ucTemp) ==
    IF i < 128
    THEN IF Carried(f, LargeFontBase + (i * 64), 64)
         THEN LET t == LargeBands(f, i, 0, ucTemp)
              IN  RotateLarge(FontCopy(f, LargeFontBase + (i * 64), t, 64), i + 1, t)
         ELSE RotateLarge(f, NextGlyph(f, i, LargeFontBase, 64, 128), ucTemp)
    ELSE f

RotateFont90(f) ==
    LET small == RotateSmall(f, 0, [k \in 0 .. 63 |-> 0])
    IN  RotateLarge(small.f, 0, small.ucTemp)

---------------------------------------------------------------------------
\* oledWriteString(x, y, szMsg, bLarge).  szMsg is the sequence of the
\* character codes before the terminating 0; f is the font table.

\* A variant that clamps to the row without regard to the start cell.
ClampLenNoStart(iLen, x, cells) == IF iLen > cells THEN cells ELSE iLen

\* strlen(szMsg) after the clamp to the row; cells is 8 or 16.
ClampLen(iLen, x, cells) == IF iLen + x > cells THEN cells - x ELSE iLen

\* s[0..n-1] for s = &ucFont[base]
FontBytes(f, base, n) == [k \in 1 .. n |-> f[base + k - 1]]

\* A variant that also draws the fourth band of the glyph, on page y + 3.
RECURSIVE LargeLoopFourBands(_, _, _, _, _, _, _, _)
LargeLoopFourBands(m, f, x, y, szMsg, i, iLen, segv) ==
    IF i < iLen
    THEN LET s  == LargeFontBase + szMsg[i + 1] * 64
             m1 == oledSetPosition(m, x + (i * 16), y)
             m2 == oledWriteDataBlock(m1, FontBytes(f, s, 16), segv)
             m3 == oledSetPosition(m2, x + (i * 16), y + 1)
             m4 == oledWriteDataBlock(m3, FontBytes(f, s + 16, 16), segv)
             m5 == oledSetPosition(m4, x + (i * 16), y + 2)
             m6 == oledWriteDataBlock(m5, FontBytes(f, s + 32, 16), segv)
             m7 == oledSetPosition(m6, x + (i * 16), y + 3)
             m8 == oledWriteDataBlock(m7, FontBytes(f, s + 48, 16), segv)
         IN  LargeLoopFourBands(m8, f, x, y, szMsg, i + 1, iLen, segv)
    ELSE m

RECURSIVE LargeLoop(_, _, _, _, _, _, _, _)
LargeLoop(m, f, x, y, szMsg, i, iLen, segv) ==
    IF i < iLen
    THEN LET s  == LargeFontBase + szMsg[i + 1] * 64
             m1 == oledSetPosition(m, x + (i * 16), y)
             m2 == oledWriteDataBlock(m1, FontBytes(f, s, 16), segv)
             m3 == oledSetPosition(m2, x + (i * 16), y + 1)
             m4 == oledWriteDataBlock(m3, FontBytes(f, s + 16, 16), segv)
             m5 == oledSetPosition(m4, x + (i * 16), y + 2)
             m6 == oledWriteDataBlock(m5, FontBytes(f, s + 32, 16), segv)
         IN  LargeLoop(m6, f, x, y, szMsg, i + 1, iLen, segv)
    ELSE m

RECURSIVE SmallLoop(_, _, _, _, _, _)
SmallLoop(m, f, szMsg, i, iLen, segv) ==
    IF i < iLen
    THEN SmallLoop(oledWriteDataBlock(m, FontBytes(f, szMsg[i + 1] * 8, 8), segv),
                   f, szMsg, i + 1, iLen, segv)
    ELSE m

WriteStringCode(m, fd, f, x, y, szMsg, bLarge, segv) ==
    IF fd = 0 THEN [ret |-> -1, m |-> m]
    ELSE IF bLarge # 0
    THEN LET iLen == ClampLen(Len(szMsg), x, LargeCells)
         IN  IF iLen < 0 THEN [ret |-> -1, m |-> m]
             ELSE [ret |-> 0,
                   m   |-> LargeLoop(m, f, x * 16, y, szMsg, 0, iLen, segv)]
    ELSE LET m1   == oledSetPosition(m, x, y)
             iLen == ClampLen(Len(szMsg), x, SmallCells)
         IN  IF iLen < 0 THEN [ret |-> -1, m |-> m1]
             ELSE [ret |-> 0, m |-> SmallLoop(m1, f, szMsg, 0, iLen, segv)]

---------------------------------------------------------------------------
\* oledInit(iAddr).  openRes is what open() returns (-1, or a descriptor that
\* is not open), ioctlRes what ioctl(I2C_SLAVE) returns.  The result names
\* the new file_i2c, whether a descriptor was opened, the burst written and
\* the font table after the call.

initbuf == <<0, 174, 168, 63, 211, 0, 64, 160, 161, 192, 200, 218, 18, 129,
             255, 164, 166, 213, 128, 141, 20, 175, 32, 2>>

InitRotates(openRes, ioctlRes) == openRes >= 0 /\ ioctlRes >= 0

InitCode(f, openRes, ioctlRes) ==
    IF openRes < 0
    THEN [ret |-> -1, fd |-> 0, opened |-> {}, tx |-> <<>>, font |-> f, rot |-> 0]
    ELSE IF ioctlRes < 0
    THEN [ret |-> -1, fd |-> 0, opened |-> {openRes}, tx |-> <<>>, font |-> f,
          rot |-> 0]
    ELSE [ret |-> 0, fd |-> openRes, opened |-> {openRes}, tx |-> <<initbuf>>,
          font |-> IF InitRotates(openRes, ioctlRes) THEN RotateFont90(f) ELSE f,
          rot  |-> IF InitRotates(openRes, ioctlRes) THEN 1 ELSE 0]

\* A variant that closes the descriptor without the display-off command.
ShutdownCodeSilent(m, fd) ==
    IF fd # 0
    THEN [fd |-> 0, closed |-> {fd}, m |-> m]
    ELSE [fd |-> fd, closed |-> {}, m |-> m]

\* oledShutdown(): the new file_i2c, the descriptors closed, the bursts.
ShutdownCode(m, fd) ==
    IF fd # 0
    THEN [fd |-> 0, closed |-> {fd}, m |-> oledWriteCommand(m, 174)]
    ELSE [fd |-> fd, closed |-> {}, m |-> m]

---------------------------------------------------------------------------
\* The state machine.

Call(op, x, y, v, msg, large) ==
    [op |-> op, x |-> x, y |-> y, v |-> v, msg |-> msg, large |-> large]

\* One message of each length up to MaxLen, over the codes 1..MaxChar.
Messages == {[i \in 1 .. n |-> 1 + (i % MaxChar)] : n \in 0 .. MaxLen}

Fds == 0 .. MaxFd

Init ==
    /\ file_i2c = 0
    /\ iScreenOffset = 0
    /\ ucScreen = [k \in 1 .. ScreenSize |-> 0]
    /\ ucFont = FontData
    /\ openFds = {}
    /\ nRotate = 0
    /\ crashed = FALSE
    /\ nText = 0
    /\ call = Call("none", 0, 0, 0, <<>>, 0)
    /\ ret = 0
    /\ tx = <<>>

\* What a drawing call leaves: r is [ret, m] as the code computed it.  (An
\* action binds the result of the code with \E r \in {...}, which computes
\* it once.)
Drawn(r) ==
    /\ ucScreen' = r.m.scr
    /\ iScreenOffset' = r.m.off
    /\ tx' = r.m.tx
    /\ ret' = r.ret
    /\ crashed' = r.m.dead
    /\ UNCHANGED <<file_i2c, ucFont, openFds, nRotate>>

\* The outcomes of open() and ioctl() in oledInit: open() fails, or returns
\* a descriptor and ioctl() fails or succeeds.
InitOutcomes == {<<-1, 0>>} \cup (Fds \X {-1, 0})

oledInit(openRes, ioctlRes) ==
    /\ ~crashed
    /\ nRotate < MaxRotate
    /\ openRes >= 0 => openRes \notin openFds
    /\ \E r \in {InitCode(ucFont, openRes, ioctlRes)} :
           /\ file_i2c' = r.fd
           /\ openFds' = openFds \cup r.opened
           /\ ucFont' = r.font
           /\ nRotate' = nRotate + r.rot
           /\ tx' = r.tx
           /\ ret' = r.ret
    /\ call' = Call("init", openRes, ioctlRes, 0, <<>>, 0)
    /\ UNCHANGED <<iScreenOffset, ucScreen, crashed, nText>>

oledShutdown ==
    /\ ~crashed
    /\ \E r \in {ShutdownCode(Machine(iScreenOffset, ucScreen), file_i2c)} :
           /\ file_i2c' = r.fd
           /\ openFds' = openFds \ r.closed
           /\ tx' = r.m.tx
    /\ ret' = 0
    /\ call' = Call("shutdown", 0, 0, 0, <<>>, 0)
    /\ UNCHANGED <<iScreenOffset, ucScreen, ucFont, nRotate, crashed, nText>>

oledSetContrast(ucContrast) ==
    /\ ~crashed
    /\ \E r \in {SetContrastCode(Machine(iScreenOffset, ucScreen), file_i2c,
                               ucContrast)} : Drawn(r)
    /\ call' = Call("setContrast", 0, 0, ucContrast, <<>>, 0)
    /\ UNCHANGED nText

oledSetPixel(x, y, ucColor) ==
    /\ ~crashed
    /\ \E r \in {SetPixelCode(Machine(iScreenOffset, ucScreen), file_i2c,
                            x, y, ucColor)} : Drawn(r)
    /\ call' = Call("setPixel", x, y, ucColor, <<>>, 0)
    /\ UNCHANGED nText

oledFill(ucData) ==
    /\ ~crashed
    /\ \E r \in {FillCode(Machine(iScreenOffset, ucScreen), file_i2c, ucData)} :
           Drawn(r)
    /\ call' = Call("fill", 0, 0, ucData, <<>>, 0)
    /\ UNCHANGED nText

oledWriteString(x, y, szMsg, bLarge, segv) ==
    /\ ~crashed
    /\ nText < MaxText
    /\ nText' = nText + 1
    /\ \E r \in {WriteStringCode(Machine(iScreenOffset, ucScreen), file_i2c,
                                ucFont, x, y, szMsg, bLarge, segv)} :
           /\ segv => r.m.dead
           /\ Drawn(r)
    /\ call' = Call("writeString", x, y, 0, szMsg, bLarge)

\* The lifecycle: every outcome of oledInit, and one call of each other
\* operation.
Next ==
    \/ \E o \in InitOutcomes : oledInit(o[1], o[2])
    \/ oledShutdown
    \/ oledSetContrast(127)
    \/ oledSetPixel(5, 10, 1)
    \/ oledFill(255)
    \/ oledWriteString(0, 0, <<2>>, 0, FALSE)

Spec == Init /\ [][Next]_vars

\* The pixel interface: coordinates on and off the 128x64 screen.
PixelNext ==
    \/ oledInit(MaxFd, 0)
    \/ \E x \in {-1, 5, 128}, y \in {-1, 10, 64}, c \in {0, 1} :
          oledSetPixel(x, y, c)
    \/ \E v \in {0, 255} : oledFill(v)

SpecPixel == Init /\ [][PixelNext]_vars

\* The text interface: cells inside and past the row, rows inside and past
\* the screen, both fonts.
TextNext ==
    \/ oledInit(MaxFd, 0)
    \/ oledFill(255)
    \/ \E x \in {0, 7, 15, 17}, y \in {0, 6}, s \in Messages, b \in {0, 1},
          k \in BOOLEAN : oledWriteString(x, y, s, b, k)

SpecText == Init /\ [][TextNext]_vars

\* The font preparation on its own.  The table carries the 8x8 glyph of code
\* 1, the last two large glyphs (126 and 127) and the 12 bytes that follow
\* the large font in memory.  Pattern p below 64 gives the 8x8 glyph with
\* the single bit p % 8 of byte p \div 8 set; the other patterns and the
\* large glyphs are dense.  v is the value of the bytes after the table.
RotateIndices ==
    (8 .. 15) \cup ((LargeFontBase + 126 * 64) .. (LargeFontBase + 128 * 64 + 11))

RotatePatterns == 0 .. MaxPattern

RotateFontData(p, v) ==
    [k \in RotateIndices |->
        IF k < LargeFontBase
        THEN IF p < 64
             THEN (IF k - 8 = p \div 8 THEN 2 ^ (p % 8) ELSE 0)
             ELSE (k * 37 + p * 11 + 5) % 256
        ELSE IF k >= LargeFontBase + 128 * 64 THEN v
        ELSE (k * 37 + (k \div 16) * 11 + p * 7 + 5) % 256]

RotateInit ==
    /\ file_i2c = 0
    /\ iScreenOffset = 0
    /\ ucScreen = [k \in 1 .. ScreenSize |-> 0]
    /\ \E p \in RotatePatterns, v \in {0, 255} : ucFont = RotateFontData(p, v)
    /\ openFds = {}
    /\ nRotate = 0
    /\ crashed = FALSE
    /\ nText = 0
    /\ call = Call("none", 0, 0, 0, <<>>, 0)
    /\ ret = 0
    /\ tx = <<>>

RotateNext ==
    \/ oledInit(MaxFd, 0)
    \/ oledShutdown

SpecRotate == RotateInit /\ [][RotateNext]_vars

---------------------------------------------------------------------------
\* Properties.

\* The driver's state as a call finds it.
Now == Machine(iScreenOffset, ucScreen)

Ready == file_i2c # 0 /\ ~crashed

ColorBit(ucColor) == IF ucColor # 0 THEN 1 ELSE 0

\* The data bursts among the bursts t.
DataBursts(t) == Cardinality({k \in 1 .. Len(t) : t[k][1] = 64})

\* The three bursts that address column x of page p.
PositionBursts(x, p) ==
    << <<0, 176 + p>>, <<0, x % 16>>, <<0, 16 + ((x \div 16) % 16)>> >>

\* Pixels of the 128x64 screen, and colours, a call is tried with in every
\* reachable state.
OnX == {0, 5, 64, 127}
OnY == {0, 7, 8, 10, 56, 63}
Colors == {0, 1, 2, 255}

OnScreen(x, y) == x \in 0 .. 127 /\ y \in 0 .. 63

\* C1: when the driver is initialized, from any reachable cache state and
\* for a pixel (x, y) of the screen, after oledSetPixel(x, y, color) returns
\* success bit (y & 7) of the cache byte (y >> 3) * 128 + x is 1 for a
\* non-zero color and 0 for color 0: both for the call just made and for
\* any call made next.
C1_SetPixelStoresColor ==
    /\ (call.op = "setPixel" /\ ret = 0 /\ OnScreen(call.x, call.y))
          => Bit(ScreenByte(ucScreen, (call.y \div 8) * 128 + call.x), call.y % 8)
                 = ColorBit(call.v)
    /\ Ready =>
          \A x \in OnX, y \in OnY, c \in Colors :
             LET r == SetPixelCode(Now, file_i2c, x, y, c)
             IN  r.ret = 0
                    => Bit(ScreenByte(r.m.scr, (y \div 8) * 128 + x), y % 8) = ColorBit(c)

\* A pixel of the screen was set by a call that had to change the cache.
C1_Witness ==
    /\ call.op = "setPixel" /\ ret = 0 /\ OnScreen(call.x, call.y)
    /\ call.v # 0 /\ tx # <<>>
    /\ Bit(ScreenByte(ucScreen, (call.y \div 8) * 128 + call.x), call.y % 8) = 1

\* C2: oledSetPixel succeeds only for 0 <= x <= 127 and 0 <= y <= 63; with
\* y = 64, x = 128 or a negative coordinate it fails, sends nothing and
\* leaves the cache alone.
C2_OffScreenRejected ==
    (call.op = "setPixel" /\ ~OnScreen(call.x, call.y))
       => ret = -1 /\ tx = <<>>

\* C3 as stated: two consecutive oledSetPixel calls with the same arguments
\* issue exactly one data burst in total, and the second call sends nothing.
C3_ExactlyOneWrite ==
    Ready =>
       \A x \in OnX, y \in OnY, c \in Colors :
          LET r1 == SetPixelCode(Now, file_i2c, x, y, c)
              r2 == SetPixelCode(Machine(r1.m.off, r1.m.scr), file_i2c, x, y, c)
          IN  /\ r2.m.tx = <<>>
              /\ DataBursts(r1.m.tx) + DataBursts(r2.m.tx) = 1

\* C3 as amended: the two calls issue one data burst in total when the
\* cached bit differed from the colour before the first call and none when
\* it already matched; the second call sends nothing and changes nothing.
C3_AtMostOneWrite ==
    Ready =>
       \A x \in OnX \cup {-1, 128}, y \in OnY \cup {64}, c \in Colors :
          LET r1 == SetPixelCode(Now, file_i2c, x, y, c)
              r2 == SetPixelCode(Machine(r1.m.off, r1.m.scr), file_i2c, x, y, c)
              i  == (y \div 8) * 128 + x
          IN  r1.ret = 0 =>
                 /\ r2.ret = 0
                 /\ r2.m.tx = <<>>
                 /\ r2.m.scr = r1.m.scr
                 /\ DataBursts(r1.m.tx) + DataBursts(r2.m.tx)
                       = (IF Bit(ScreenByte(ucScreen, i), y % 8) # ColorBit(c) THEN 1 ELSE 0)

\* A call that found the bit already set (as the second of two equal calls
\* does) was made and sent nothing.
C3_Witness ==
    /\ call.op = "setPixel" /\ ret = 0 /\ OnScreen(call.x, call.y)
    /\ call.v # 0 /\ tx = <<>>
    /\ Bit(ScreenByte(ucScreen, (call.y \div 8) * 128 + call.x), call.y % 8) = 1

\* C4: oledSetPixel transmits exactly when the addressed cache byte changes.
\* When the cached bit already equals the colour the call sends nothing and
\* leaves the cache and the write offset as they were; when the byte changes
\* the call sends the three positioning bursts for column x of page y >> 3
\* and then one data burst: 0x40 and the new byte.
C4_TransmitsIffChanged ==
    Ready =>
       \A x \in OnX, y \in OnY, c \in Colors :
          LET r  == SetPixelCode(Now, file_i2c, x, y, c)
              i  == (y \div 8) * 128 + x
          IN  IF Bit(ScreenByte(ucScreen, i), y % 8) = ColorBit(c)
              THEN /\ r.m.tx = <<>>
                   /\ r.m.scr = ucScreen
                   /\ r.m.off = iScreenOffset
              ELSE /\ ScreenByte(r.m.scr, i) # ScreenByte(ucScreen, i)
                   /\ r.m.tx = PositionBursts(x, y \div 8)
                                  \o << <<64, ScreenByte(r.m.scr, i)>> >>

\* A call changed a cache byte and sent the four bursts.
C4_Witness ==
    /\ call.op = "setPixel" /\ ret = 0 /\ OnScreen(call.x, call.y)
    /\ Len(tx) = 4
    /\ tx[4] = <<64, ScreenByte(ucScreen, (call.y \div 8) * 128 + call.x)>>

\* What oledFill(v) sends for the pages p..7.
RECURSIVE FillBursts(_, _)
FillBursts(v, p) ==
    IF p > 7 THEN <<>>
    ELSE PositionBursts(0, p) \o << <<64>> \o [k \in 1 .. 128 |-> v] >>
            \o FillBursts(v, p + 1)

\* C5: after oledFill(v) returns, every one of the 1024 cache bytes is v,
\* whatever the cache held before (so oledFill(0x00) after oledFill(0xFF)
\* leaves every byte 0x00), and the call has sent, for the pages 0..7 in this
\* order, the positioning bursts for column 0 of the page and one data burst
\* of 128 bytes v: both for the call just made and for any call made next.
C5_FillOverwritesAll ==
    /\ (call.op = "fill" /\ ret = 0) =>
          /\ Len(ucScreen) = 1024
          /\ \A k \in 0 .. 1023 : ScreenByte(ucScreen, k) = call.v
          /\ tx = FillBursts(call.v, 0)
    /\ Ready =>
          \A v \in {0, 165, 255} :
             \A r \in {FillCode(Now, file_i2c, v)} :
                /\ r.ret = 0
                /\ Len(r.m.scr) = 1024
                /\ \A k \in 0 .. 1023 : ScreenByte(r.m.scr, k) = v
                /\ r.m.tx = FillBursts(v, 0)

\* oledFill(0xFF) has overwritten the cache, which held 0x00 in all bytes
\* but those that pixel calls had changed.
C5_Witness ==
    /\ call.op = "fill" /\ ret = 0 /\ call.v = 255
    /\ Len(tx) = 32
    /\ \A k \in 0 .. 1023 : ScreenByte(ucScreen, k) = 255

\* Arguments the calls are tried with in every state: coordinates on and off
\* the screen, cells inside and past the row, and a message longer than a row.
AnyX == {-129, -1, 0, 5, 127, 128, 1024}
AnyY == {-8, -1, 0, 10, 63, 64, 1000}
AnyCell == -2 .. 18
LongMessage == [i \in 1 .. 20 |-> 1 + (i % MaxChar)]
AnyMessage == Messages \cup {LongMessage}

DrawingOps == {"setContrast", "setPixel", "writeString", "fill"}

\* C6: while the driver is not initialized (file_i2c = 0: before a successful
\* oledInit, after a failed one, after oledShutdown), oledSetContrast,
\* oledSetPixel, oledWriteString and oledFill return failure, send nothing
\* and leave the cache, the write offset and the font table as they were,
\* whatever their arguments: both in every step taken and for every call
\* that could be made next.
C6_NotInitializedFails ==
    [][ /\ (file_i2c = 0 /\ call'.op \in DrawingOps)
           => /\ ret' = -1
              /\ tx' = <<>>
              /\ UNCHANGED <<ucScreen, iScreenOffset, ucFont, file_i2c>>
        /\ (file_i2c = 0 /\ ~crashed)
           => /\ \A v \in Colors :
                    /\ SetContrastCode(Now, file_i2c, v) = [ret |-> -1, m |-> Now]
                    /\ FillCode(Now, file_i2c, v) = [ret |-> -1, m |-> Now]
              /\ \A x \in AnyX, y \in AnyY, c \in Colors :
                    SetPixelCode(Now, file_i2c, x, y, c) = [ret |-> -1, m |-> Now]
              /\ \A x \in AnyCell, y \in {0, 7, 8}, t \in AnyMessage, b \in {0, 1} :
                    WriteStringCode(Now, file_i2c, ucFont, x, y, t, b, FALSE)
                       = [ret |-> -1, m |-> Now]
      ]_vars

\* oledFill was refused after the driver had been initialized and shut down
\* (or initialized on descriptor 0).
C6_Witness ==
    /\ call.op = "fill" /\ ret = -1 /\ tx = <<>>
    /\ file_i2c = 0 /\ nRotate >= 1

\* C7: oledShutdown called while initialized sends exactly one burst, the
\* display-off command (0x00, 0xAE), closes the descriptor and leaves the
\* driver not initialized; called while not initialized (a second shutdown
\* in a row included) it sends nothing and changes nothing.
C7_ShutdownIdempotent ==
    [][ call'.op = "shutdown"
        => /\ IF file_i2c # 0
              THEN /\ tx' = << <<0, 174>> >>
                   /\ file_i2c \in openFds
                   /\ openFds' = openFds \ {file_i2c}
              ELSE /\ tx' = <<>>
                   /\ openFds' = openFds
           /\ file_i2c' = 0
           /\ UNCHANGED <<ucScreen, iScreenOffset, ucFont, nRotate>>
           /\ \A r \in {ShutdownCode(Machine(iScreenOffset', ucScreen'), file_i2c')} :
                 r.m.tx = <<>> /\ r.closed = {} /\ r.fd = 0
      ]_vars

\* oledShutdown was called twice in a row: the second call sent nothing.
C7_Witness ==
    /\ call.op = "shutdown" /\ tx = <<>>
    /\ file_i2c = 0 /\ nRotate >= 1 /\ openFds = {}

\* C8: oledInit returns failure when open() or ioctl() fails, and then sends
\* nothing, does not rotate the font and leaves the driver not initialized;
\* when both succeed it returns success, its only transmission is the burst
\* of 0x00 and the 23 initialization bytes, the font is rotated and the
\* driver is initialized.
C8_InitContract ==
    [][ call'.op = "init"
        => IF call'.x < 0 \/ call'.y < 0
           THEN /\ ret' = -1
                /\ tx' = <<>>
                /\ UNCHANGED <<ucFont, nRotate>>
                /\ file_i2c' = 0
           ELSE /\ ret' = 0
                /\ tx' = << <<0, 174, 168, 63, 211, 0, 64, 160, 161, 192, 200,
                              218, 18, 129, 255, 164, 166, 213, 128, 141, 20,
                              175, 32, 2>> >>
                /\ nRotate' = nRotate + 1
                /\ file_i2c' # 0
      ]_vars

\* C9: the font rotation runs at most once in a process lifetime: once the
\* font table has been rotated no call modifies it again.
C9_RotatedOnce ==
    [][ nRotate >= 1 => ucFont' = ucFont ]_vars

\* The glyphs a oledWriteString call has emitted: one data burst for each
\* 8x8 glyph, three for each large one.
GlyphsEmitted(t, bLarge) ==
    IF bLarge # 0 THEN DataBursts(t) \div 3 ELSE DataBursts(t)

\* The same counted from the bursts: every burst of a large glyph counts.
LargeBurstsWhole(t, bLarge) == bLarge # 0 => DataBursts(t) % 3 = 0

\* The driver is initialized and oledWriteString can be called next.
CanWrite == Ready /\ nText < MaxText

\* C10: oledWriteString with a text longer than the rest of the row truncates
\* and succeeds: on an initialized driver the call with start cell x emits
\* exactly min(len(text), 16 - x) glyphs of the 8x8 font, or
\* min(len(text), 8 - x) of the large font, and returns success; it returns
\* failure exactly when that number is negative.  Both for the call just
\* made and for any call that can be made next.
C10_Truncates ==
    /\ (call.op = "writeString" /\ Ready)
          => LET n == Min(Len(call.msg), (IF call.large # 0 THEN 8 ELSE 16) - call.x)
             IN  IF n < 0 THEN ret = -1
                 ELSE /\ ret = 0
                      /\ GlyphsEmitted(tx, call.large) = n
                      /\ LargeBurstsWhole(tx, call.large)
    /\ CanWrite =>
          \A x \in AnyCell, y \in {0, 5}, t \in AnyMessage, b \in {0, 1} :
             \A r \in {WriteStringCode(Now, file_i2c, ucFont, x, y, t, b, FALSE)} :
                LET n == Min(Len(t), (IF b # 0 THEN 8 ELSE 16) - x)
                IN  IF n < 0 THEN r.ret = -1
                    ELSE /\ r.ret = 0
                         /\ GlyphsEmitted(r.m.tx, b) = n
                         /\ LargeBurstsWhole(r.m.tx, b)

\* A text of two or more characters was written from cell 15 of a row in the
\* 8x8 font: one glyph was emitted and the call succeeded.
C10_Witness ==
    /\ call.op = "writeString" /\ Ready /\ ret = 0
    /\ call.large = 0 /\ call.x = 15 /\ Len(call.msg) >= 2
    /\ DataBursts(tx) = 1

\* C11: in the 8x8 font the x of oledWriteString is a glyph cell: with
\* 0 <= x <= 15 and 0 <= y <= 7 the call addresses the device at column 8x
\* of page y, and the 8 bytes of the k-th glyph emitted are in the cache at
\* y*128 + 8(x+k) .. y*128 + 8(x+k) + 7 (so that blank glyphs leave those
\* bytes zero).
C11_SmallCellColumns ==
    (/\ call.op = "writeString" /\ Ready /\ ret = 0 /\ call.large = 0
     /\ call.x \in 0 .. 15 /\ call.y \in 0 .. 7)
       => LET n == Min(Len(call.msg), 16 - call.x)
          IN  /\ Len(tx) = 3 + n
              /\ SubSeq(tx, 1, 3) = PositionBursts(8 * call.x, call.y)
              /\ \A k \in 0 .. n - 1, j \in 0 .. 7 :
                    ScreenByte(ucScreen, call.y * 128 + 8 * (call.x + k) + j)
                       = ucFont[call.msg[k + 1] * 8 + j]

\* The bursts of one large glyph of code c drawn at pixel column col of the
\* pages y, y + 1, y + 2: for each band its positioning and its 16 bytes.
LargeGlyphBursts(f, c, col, y) ==
    LET band(b) == PositionBursts(col, y + b)
                      \o << <<64>> \o [j \in 1 .. 16 |->
                                         f[9728 + (64 * c) + (16 * b) + j - 1]] >>
    IN  band(0) \o band(1) \o band(2)

\* The bursts of the glyphs k .. n-1 of the text t drawn from cell x.
RECURSIVE LargeTextBursts(_, _, _, _, _, _)
LargeTextBursts(f, t, k, n, x, y) ==
    IF k >= n THEN <<>>
    ELSE LargeGlyphBursts(f, t[k + 1], 16 * (x + k), y)
            \o LargeTextBursts(f, t, k + 1, n, x, y)

\* The cache indices of the three bands of the glyphs 0 .. n-1.
LargeTextCells(n, x, y) ==
    {(y + b) * 128 + 16 * (x + k) + j : b \in 0 .. 2, k \in 0 .. n - 1, j \in 0 .. 15}

\* C12: in the large font, with 0 <= x <= 7 and 0 <= y <= 5, each glyph k
\* emitted goes out as three data bursts of 16 bytes, each right after its
\* own three positioning bursts, for column 16(x+k) of the pages y, y+1 and
\* y+2; they carry the bytes 0..15, 16..31 and 32..47 of the 64-byte glyph,
\* which are then in the cache at (y+b)*128 + 16(x+k) .. +15; the bytes
\* 48..63 are neither sent nor copied, and no other cache byte changes.
\* Both for the call just made and for any call that can be made next.
C12_LargeThreeBands ==
    /\ (/\ call.op = "writeString" /\ Ready /\ call.large # 0
        /\ call.x \in 0 .. 7 /\ call.y \in 0 .. 5)
          => LET n == Min(Len(call.msg), 8 - call.x)
             IN  /\ ret = 0
                 /\ tx = LargeTextBursts(ucFont, call.msg, 0, n, call.x, call.y)
                 /\ \A k \in 0 .. n - 1, b \in 0 .. 2, j \in 0 .. 15 :
                       ScreenByte(ucScreen, (call.y + b) * 128 + 16 * (call.x + k) + j)
                          = ucFont[9728 + 64 * call.msg[k + 1] + 16 * b + j]
    /\ CanWrite =>
          \A x \in {0, 3, 6, 7}, y \in {0, 5}, t \in Messages :
             \A r \in {WriteStringCode(Now, file_i2c, ucFont, x, y, t, 1, FALSE)} :
                LET n == Min(Len(t), 8 - x)
                IN  /\ r.ret = 0
                    /\ ~r.m.oob
                    /\ r.m.tx = LargeTextBursts(ucFont, t, 0, n, x, y)
                    /\ \A k \in 0 .. n - 1, b \in 0 .. 2, j \in 0 .. 15 :
                          ScreenByte(r.m.scr, (y + b) * 128 + 16 * (x + k) + j)
                             = ucFont[9728 + 64 * t[k + 1] + 16 * b + j]
                    /\ \A i \in (0 .. 1023) \ LargeTextCells(n, x, y) :
                          ScreenByte(r.m.scr, i) = ScreenByte(ucScreen, i)

\* Three large glyphs were drawn from cell 0 of page 0: 9 data bursts, each
\* after its positioning, and band 2 of the last glyph is in the cache on
\* page 2 from column 32.
C12_Witness ==
    /\ call.op = "writeString" /\ Ready /\ ret = 0 /\ call.large # 0
    /\ call.x = 0 /\ call.y = 0 /\ Len(call.msg) = 3
    /\ Len(tx) = 36 /\ DataBursts(tx) = 9
    /\ \A j \in 0 .. 15 :
          ScreenByte(ucScreen, 2 * 128 + 32 + j) = ucFont[9728 + 64 * call.msg[3] + 32 + j]

\* The 8 bytes of the 8x8 glyph of code i in the font table f.
SmallGlyph(f, i) == [k \in 0 .. 7 |-> f[8 * i + k]]

\* The step is the first run of the font rotation.
FirstRotation == nRotate = 0 /\ nRotate' = 1

\* C13 as stated: the rotation of the 8x8 font takes bit y of input byte x of
\* a glyph to bit 7 - x of output byte 7 - y; a glyph with byte 0 = 0x01 and
\* the other bytes 0 becomes the glyph whose only non-zero byte is byte 7,
\* 0x80.
C13_SmallRotationMirrored ==
    [][ FirstRotation
        => \A i \in {1} :
              /\ \A x \in 0 .. 7, y \in 0 .. 7 :
                    Bit(ucFont'[8 * i + 7 - y], 7 - x) = Bit(ucFont[8 * i + x], y)
              /\ SmallGlyph(ucFont, i) = [k \in 0 .. 7 |-> IF k = 0 THEN 1 ELSE 0]
                    => SmallGlyph(ucFont', i) = [k \in 0 .. 7 |-> IF k = 7 THEN 128 ELSE 0]
      ]_vars

\* C13 as amended: the rotation takes bit y of input byte x to bit x of
\* output byte 7 - y; a glyph with byte 0 = 0x01 and the other bytes 0
\* becomes the glyph whose only non-zero byte is byte 7, 0x01.
C13_SmallRotation ==
    [][ FirstRotation
        => \A i \in {1} :
              /\ \A x \in 0 .. 7, y \in 0 .. 7 :
                    Bit(ucFont'[8 * i + 7 - y], x) = Bit(ucFont[8 * i + x], y)
              /\ SmallGlyph(ucFont, i) = [k \in 0 .. 7 |-> IF k = 0 THEN 1 ELSE 0]
                    => SmallGlyph(ucFont', i) = [k \in 0 .. 7 |-> IF k = 7 THEN 1 ELSE 0]
      ]_vars

\* The font has been rotated once and the glyph of code 1 is now byte 7 =
\* 0x01 alone: what the glyph with byte 0 = 0x01 alone becomes (the rotation
\* is one to one).
C13_Witness ==
    /\ nRotate = 1
    /\ SmallGlyph(ucFont, 1) = [k \in 0 .. 7 |-> IF k = 7 THEN 1 ELSE 0]

\* The call that produced r wrote no byte outside ucScreen: no copy left the
\* array, and after its last data burst the write offset is at most 1024.
InBounds(r) ==
    /\ ~r.m.oob
    /\ ~r.m.dead
    /\ DataBursts(r.m.tx) >= 1 => r.m.off \in 1 .. 1024

\* C14: every oledSetPixel, oledFill or oledWriteString call that is accepted
\* while the driver is initialized, whatever its arguments, reads and writes
\* the cache at indices 0..1023 only (oledWriteString with y >= 8, the large
\* font with y >= 6 and a negative x included): no call made has written
\* outside ucScreen, and no oledSetPixel or oledFill call that could be made
\* next would.
C14_CacheInBounds ==
    /\ (call.op \in {"setPixel", "fill", "writeString"} /\ file_i2c # 0 /\ ret = 0)
          => /\ ~crashed
             /\ DataBursts(tx) >= 1 => iScreenOffset \in 1 .. 1024
    /\ Ready =>
          /\ \A x \in AnyX, y \in AnyY, c \in {0, 1} :
                \A r \in {SetPixelCode(Now, file_i2c, x, y, c)} :
                   r.ret = 0 => InBounds(r)
          /\ \A r \in {FillCode(Now, file_i2c, 255)} : r.ret = 0 => InBounds(r)

\* The controller's write pointer as the bursts of a call move it: the page
\* set by a command 0xB0..0xB7, the column from the commands 0x00..0x0F (low
\* nibble) and 0x10..0x1F (high nibble), the column advancing by one for
\* every data byte.  -1 stands for what an earlier call left behind.
Pointer(page, lo, hi) == [page |-> page, lo |-> lo, hi |-> hi]

PointerColumn(d) == IF d.lo < 0 \/ d.hi < 0 THEN -1 ELSE (16 * d.hi) + d.lo

PointerAfter(d, b) ==
    IF b[1] = 0 /\ Len(b) = 2
    THEN IF b[2] \in 176 .. 183 THEN [d EXCEPT !.page = b[2] - 176]
         ELSE IF b[2] \in 0 .. 15 THEN [d EXCEPT !.lo = b[2]]
         ELSE IF b[2] \in 16 .. 31 THEN [d EXCEPT !.hi = b[2] - 16]
         ELSE d
    ELSE IF b[1] = 64 /\ PointerColumn(d) >= 0
    THEN LET c == PointerColumn(d) + (Len(b) - 1)
         IN  [d EXCEPT !.lo = c % 16, !.hi = c \div 16]
    ELSE d

\* The pointer before burst k of the bursts t.
RECURSIVE PointerAt(_, _)
PointerAt(t, k) ==
    IF k <= 1 THEN Pointer(-1, -1, -1)
    ELSE PointerAfter(PointerAt(t, k - 1), t[k - 1])

\* The data bytes of the bursts t land on the controller at (P, C) with P in
\* 0..7 and C in 0..127, and the cache scr holds each of them at 128 P + C;
\* off, the write offset, is where the last of them ended.
Mirrored(t, scr, off) ==
    /\ \A k \in 1 .. Len(t) :
          t[k][1] = 64 =>
             \A d \in {PointerAt(t, k)} :
                /\ d.page \in 0 .. 7
                /\ PointerColumn(d) >= 0
                /\ PointerColumn(d) + (Len(t[k]) - 1) <= 128
                /\ \A j \in 0 .. Len(t[k]) - 2 :
                      ScreenByte(scr, 128 * d.page + PointerColumn(d) + j) = t[k][j + 2]
    /\ \A k \in {Len(t)} \ {0} :
          t[k][1] = 64 =>
             off = 128 * PointerAt(t, k).page + PointerColumn(PointerAt(t, k))
                      + (Len(t[k]) - 1)

\* C15: the cache mirrors the device in lock step: every data byte that a
\* successful oledSetPixel, oledFill or oledWriteString call on the
\* initialized driver transmits lands on the controller at a page P in 0..7
\* and a column C in 0..127 (those of the positioning commands last sent,
\* the column advancing with every byte) and is in the cache at 128 P + C.
C15_CacheMirrorsDevice ==
    (call.op \in {"setPixel", "fill", "writeString"} /\ Ready /\ ret = 0)
       => Mirrored(tx, ucScreen, iScreenOffset)

\* Burst k of t is a data burst, and the three bursts before it are a
\* positioning: a page command, a low column nibble, a high column nibble.
Positioned(t, k) ==
    /\ k >= 4
    /\ t[k][1] = 64
    /\ Len(t[k - 3]) = 2 /\ t[k - 3][1] = 0 /\ t[k - 3][2] \in 176 .. 255
    /\ Len(t[k - 2]) = 2 /\ t[k - 2][1] = 0 /\ t[k - 2][2] \in 0 .. 15
    /\ Len(t[k - 1]) = 2 /\ t[k - 1][1] = 0 /\ t[k - 1][2] \in 16 .. 31

\* The first data burst of the bursts t of one call, if there is one, comes
\* right after a positioning sent in the same call.
FirstDataPositioned(t) ==
    \A k \in 1 .. Len(t) :
       (t[k][1] = 64 /\ \A h \in 1 .. k - 1 : t[h][1] # 64) => Positioned(t, k)

\* C16: oledSetPosition(column, page) sends exactly three two-byte command
\* bursts, in this order: (0x00, 0xB0 | page), (0x00, column & 0xF),
\* (0x00, 0x10 | ((column >> 4) & 0xF)), and sets the write offset to
\* page * 128 + column; and the first data burst of every public call comes
\* after such a positioning sent by the same call, so that no call writes
\* data at a position an earlier call left behind.  Both for the calls made
\* and for calls that could be made next.
C16_PositionBeforeData ==
    /\ FirstDataPositioned(tx)
    /\ Ready =>
          /\ \A x \in {-1, 0, 5, 16, 127, 128, 255}, p \in 0 .. 7 :
                \A m \in {oledSetPosition(Now, x, p)} :
                   /\ m.tx = << <<0, 176 + p>>, <<0, x % 16>>,
                                <<0, 16 + ((x \div 16) % 16)>> >>
                   /\ m.off = (p * 128) + x
                   /\ m.scr = ucScreen
          /\ \A x \in OnX, y \in {0, 63}, c \in {0, 1} :
                FirstDataPositioned(SetPixelCode(Now, file_i2c, x, y, c).m.tx)
          /\ FirstDataPositioned(FillCode(Now, file_i2c, 0).m.tx)
          /\ \A x \in {0, 15, 16}, y \in {0, 7}, t \in Messages, b \in {0, 1} :
                FirstDataPositioned(
                   WriteStringCode(Now, file_i2c, ucFont, x, y, t, b, FALSE).m.tx)

\* oledWriteString has sent one 8x8 glyph: the positioning of column 0 of
\* page 0, then the data burst.
C16_Witness ==
    /\ call.op = "writeString" /\ Ready /\ ret = 0
    /\ Len(tx) = 4
    /\ SubSeq(tx, 1, 3) = PositionBursts(0, 0)
    /\ tx[4][1] = 64

\* C17: a oledWriteString call that returns failure, in either font (the
\* driver not initialized, or the clamped length negative because x is past
\* the row), has sent nothing and has left the cache and the write offset as
\* they were before the call.
C17_FailedWriteStringUntouched ==
    [][ (call'.op = "writeString" /\ ret' = -1)
        => /\ tx' = <<>>
           /\ UNCHANGED <<ucScreen, iScreenOffset>>
      ]_vars

\* C18: the driver owns at most one open descriptor and never loses one:
\* after any sequence of oledInit and oledShutdown calls every descriptor
\* the driver opened and has not closed is file_i2c, and after oledShutdown
\* none is open.
C18_NoDescriptorLeak ==
    /\ Cardinality(openFds) <= 1
    /\ \A h \in openFds : h = file_i2c
    /\ call.op = "shutdown" => openFds = {}

\* C19: a successful oledSetPixel(x, y, color) changes at most one bit of
\* the cache: bit y & 7 of the byte (y >> 3) * 128 + x, where x, in 0..127,
\* is the pixel's own column; the other bits of that byte, all other cache
\* bytes, the font table and file_i2c stay as they were, and the one data
\* byte sent, if any, is the new value of that byte.
C19_OnePixelChanges ==
    [][ (call'.op = "setPixel" /\ file_i2c # 0 /\ ret' = 0)
        => LET i == (call'.y \div 8) * 128 + call'.x
           IN  /\ call'.x \in 0 .. 127
               /\ i \in 0 .. 1023
               /\ \A k \in (0 .. 1023) \ {i} :
                     ScreenByte(ucScreen', k) = ScreenByte(ucScreen, k)
               /\ \A b \in (0 .. 7) \ {call'.y % 8} :
                     Bit(ScreenByte(ucScreen', i), b) = Bit(ScreenByte(ucScreen, i), b)
               /\ UNCHANGED <<ucFont, file_i2c>>
               /\ DataBursts(tx') <= 1
               /\ tx' # <<>> => tx'[Len(tx')] = <<64, ScreenByte(ucScreen', i)>>
      ]_vars

\* The large-font region of the table: 128 glyphs of 64 bytes from 9728.
LargeRegion == 9728 .. (9728 + 128 * 64 - 1)

\* The large glyphs the table f carries whole.
LargeGlyphs(f) == {i \in 0 .. 127 : Carried(f, 9728 + 64 * i, 64)}

\* The table f with the value w in every byte outside the two fonts.
WithOutside(f, w) ==
    [k \in DOMAIN f |-> IF k \in LargeRegion \/ k < 2048 THEN f[k] ELSE w]

\* C20: the rotation of the large font reads, for glyph i and band j, the 16
\* bytes s that start 12 + 16 j bytes after the glyph's base, and takes bit y
\* of s[2x] to bit x of byte 16 j + 7 - y and bit y of s[2x+1] to bit x of
\* byte 16 j + 15 - y of the glyph's own 64 bytes; every byte it reads holds
\* its value from before the rotation; it changes only the bytes of the
\* large-font region, and it reads no byte outside that region (what it
\* leaves in the region does not depend on the bytes outside).
C20_LargeRotation ==
    [][ FirstRotation
        => /\ \A i \in LargeGlyphs(ucFont), j \in 0 .. 3, x \in 0 .. 7, y \in 0 .. 7 :
                 LET s == 9728 + 64 * i + 12 + 16 * j
                     d == 9728 + 64 * i + 16 * j
                 IN  /\ Bit(ucFont'[d + 7 - y], x) = Bit(ucFont[s + 2 * x], y)
                     /\ Bit(ucFont'[d + 15 - y], x) = Bit(ucFont[s + 2 * x + 1], y)
           /\ \A k \in DOMAIN ucFont :
                 (k \notin LargeRegion /\ k >= 2048) => ucFont'[k] = ucFont[k]
           /\ \A w \in {0, 255} :
                 \A g \in {RotateFont90(WithOutside(ucFont, w))} :
                    \A k \in LargeRegion \cap DOMAIN ucFont : g[k] = ucFont'[k]
      ]_vars

=============================================================================
